---- MODULE Spec2Model ----
(***************************************************************************)
(* Model of src/app.py: the Flask handlers recommend() and download_pdf(), *)
(* the helpers calculate_bmi() and bmi_category(), and the four regular    *)
(* expressions that cut the provider's completion into sections.           *)
(*                                                                         *)
(* Strings are tuples of one-character strings.  A completion is a tuple   *)
(* of tokens: the four header emoji, the four header literals, newline,    *)
(* space and content characters.  Numbers are integers counting            *)
(* hundredths (70.00 is 7000), which is exact for inputs with at most two  *)
(* decimals and for the two-decimal result of round(x, 2); the quotient is *)
(* rounded on its exact value, which differs from binary floating point    *)
(* only at exact decimal ties, and none of the inputs below produces one.  *)
(***************************************************************************)
EXTENDS Integers, Sequences, FiniteSets, TLC

\* ------------------------------------------------------------------ bounds
MaxRequests == 2   \* requests in flight
MaxPad      == 1   \* spaces of padding around a submitted form value
MaxLines    == 2   \* content lines of one section of a completion

Requests == 1..MaxRequests

\* ------------------------------------------------------------- characters
SP == " "
NL == "\n"
Whitespace == {SP, NL}
Digits == {"0", "1", "2", "3", "4", "5", "6", "7", "8", "9"}

DigitVal(c) ==
  CASE c = "0" -> 0 [] c = "1" -> 1 [] c = "2" -> 2 [] c = "3" -> 3
    [] c = "4" -> 4 [] c = "5" -> 5 [] c = "6" -> 6 [] c = "7" -> 7
    [] c = "8" -> 8 [] c = "9" -> 9

MinOf(S) == CHOOSE x \in S : \A y \in S : x <= y
MaxOf(S) == CHOOSE x \in S : \A y \in S : y <= x

\* str.strip(): drop leading and trailing whitespace
StripNone(s) == s
Strip(s) ==
  LET keep == {i \in 1..Len(s) : s[i] \notin Whitespace}
  IN  IF keep = {} THEN <<>> ELSE SubSeq(s, MinOf(keep), MaxOf(keep))

\* str.split('\n'): always at least one element
RECURSIVE Split(_)
Split(s) ==
  LET nls == {i \in 1..Len(s) : s[i] = NL}
  IN  IF nls = {} THEN <<s>>
      ELSE <<SubSeq(s, 1, MinOf(nls) - 1)>> \o Split(SubSeq(s, MinOf(nls) + 1, Len(s)))

\* ---------------------------------------------------------------- float()
RECURSIVE IntOf(_)
IntOf(ds) ==
  IF ds = <<>> THEN 0 ELSE IntOf(SubSeq(ds, 1, Len(ds) - 1)) * 10 + DigitVal(ds[Len(ds)])

\* the fraction digits as hundredths (inputs carry at most two decimals)
FracOf(ds) ==
  CASE Len(ds) = 0 -> 0
    [] Len(ds) = 1 -> DigitVal(ds[1]) * 10
    [] Len(ds) = 2 -> DigitVal(ds[1]) * 10 + DigitVal(ds[2])

\* float(s): ok = FALSE stands for ValueError; val is the number in hundredths
ParseFloat(s) ==
  LET t    == Strip(s)
      sgn  == t # <<>> /\ t[1] \in {"-", "+"}
      body == IF sgn THEN Tail(t) ELSE t
      dots == {i \in 1..Len(body) : body[i] = "."}
      dot  == IF dots = {} THEN Len(body) + 1 ELSE MinOf(dots)
      ip   == SubSeq(body, 1, dot - 1)
      fp   == SubSeq(body, dot + 1, Len(body))
      ok   == /\ \A i \in 1..Len(body) : body[i] \in Digits \cup {"."}
              /\ Cardinality(dots) <= 1
              /\ Len(ip) + Len(fp) >= 1
      mag  == IntOf(ip) * 100 + FracOf(fp)
  IN  IF ~ok THEN [ok |-> FALSE, val |-> 0]
      ELSE [ok |-> TRUE, val |-> IF t[1] = "-" THEN 0 - mag ELSE mag]

\* round(n / d) for d > 0, ties to even
RoundHalfEven(n, d) ==
  LET a == IF n < 0 THEN 0 - n ELSE n
      q == a \div d
      r == a % d
      m == IF 2 * r < d THEN q
           ELSE IF 2 * r > d THEN q + 1
           ELSE IF q % 2 = 0 THEN q ELSE q + 1
  IN  IF n < 0 THEN 0 - m ELSE m

\* ---------------------------------------------------------- calculate_bmi
\* kind "value": the rounded BMI in hundredths; kind "none": the ValueError
\* branch returned None; kind "raise": an exception left the function.
calculate_bmi(weight, height) ==
  LET w == ParseFloat(weight)
      h == ParseFloat(height)
  IN  IF ~w.ok \/ ~h.ok THEN [kind |-> "none", bmi |-> 0, exc |-> ""]
      ELSE IF h.val * h.val = 0
           THEN [kind |-> "raise", bmi |-> 0, exc |-> "float division by zero"]
           ELSE [kind |-> "value", bmi |-> RoundHalfEven(w.val * 10000, h.val * h.val), exc |-> ""]

\* ----------------------------------------------------------- bmi_category
bmi_category(bmi) ==
  IF bmi < 1850 THEN "Underweight"
  ELSE IF 1850 <= bmi /\ bmi < 2490 THEN "Normal weight"
  ELSE IF 2500 <= bmi /\ bmi < 2990 THEN "Overweight"
  ELSE "Obese"

\* ------------------------------------------------- section extraction
\* One token per header emoji and per header literal "**...:**".
Emoji   == <<"<heart>", "<egg>", "<plate>", "<lifter>">>
Literal == <<"**Daily Routine:**", "**Breakfast:**", "**Dinner:**", "**Workout Plan:**">>
Placeholder ==
  << <<"No routine suggestions!">>, <<"No breakfast ideas!">>,
     <<"No dinner ideas!">>, <<"No workouts suggested!">> >>
Sections == 1..4

\* greedy \s* from position p: the first position at or after p that is not
\* whitespace (Len + 1 at the end of the text)
SkipWs(text, p) ==
  MinOf({q \in p..(Len(text) + 1) : q = Len(text) + 1 \/ text[q] \notin Whitespace})

\* emoji \s* literal matches at position p
HeaderAtLineStart(text, p, i) ==
  /\ p \in 1..Len(text)
  /\ p = 1 \/ text[p - 1] = NL
  /\ text[p] = Emoji[i]
  /\ SkipWs(text, p + 1) <= Len(text)
  /\ text[SkipWs(text, p + 1)] = Literal[i]
HeaderAt(text, p, i) ==
  /\ p \in 1..Len(text)
  /\ text[p] = Emoji[i]
  /\ SkipWs(text, p + 1) <= Len(text)
  /\ text[SkipWs(text, p + 1)] = Literal[i]

\* where the capture group starts: after the literal and the greedy \s*
CaptureStart(text, p) == SkipWs(text, SkipWs(text, p + 1) + 1)

\* the lookahead (?=\n<next emoji>|\Z), or (?=\Z) for the last section
LookaheadAt(text, e, i) ==
  \/ e = Len(text) + 1
  \/ /\ i < 4
     /\ e + 1 <= Len(text)
     /\ text[e] = NL
     /\ text[e + 1] = Emoji[i + 1]

\* lazy (.*?) with DOTALL: the first position from s on where the lookahead holds
CaptureEnd(text, s, i) ==
  MinOf({e \in s..(Len(text) + 1) : LookaheadAt(text, e, i)})

\* re.findall(pattern_i, text, re.DOTALL): the captures of the
\* non-overlapping matches, leftmost first
RECURSIVE FindAllFrom(_, _, _)
FindAllFrom(text, i, pos) ==
  LET starts == {p \in pos..Len(text) : HeaderAt(text, p, i)}
  IN  IF starts = {} THEN <<>>
      ELSE LET p == MinOf(starts)
               s == CaptureStart(text, p)
               e == CaptureEnd(text, s, i)
           IN  <<SubSeq(text, s, e - 1)>> \o FindAllFrom(text, i, e)

FindAll(text, i) == FindAllFrom(text, i, 1)

\* matches[0].strip().split('\n') if matches else [placeholder]
SectionListRaw(found, i) ==
  IF found # <<>> THEN Split(Strip(found[1])) ELSE <<>>
SectionList(found, i) ==
  IF found # <<>> THEN Split(Strip(found[1])) ELSE <<Placeholder[i]>>

\* ------------------------------------------------------------ the inputs
FieldNames == {"age", "gender", "weight", "height", "disease", "veg", "allergics", "foodtype"}

Spaces(n) == [j \in 1..n |-> SP]
Pad(s, n) == Spaces(n) \o s \o Spaces(n)

WeightStrs ==
  { <<"7", "0">>, <<"0">>, <<"-", "5">>, <<"x">>, <<"7", "2", ".", "2">>,
    <<"1", "8", ".", "4", "9">>, <<"1", "8", ".", "5">>,
    <<"2", "4", ".", "8", "9">>, <<"2", "4", ".", "9">>, <<"2", "4", ".", "9", "5">>,
    <<"2", "5">>, <<"2", "9", ".", "8", "9">>, <<"2", "9", ".", "9">> }
HeightStrs ==
  { <<"1">>, <<"1", ".", "7", "5">>, <<"1", ".", "7">>, <<"0">>, <<"0", ".", "0">>,
    <<"-", "1">>, <<"x">> }

FormOf(w, h, n) ==
  [k \in FieldNames |->
     Pad(IF k = "weight" THEN w ELSE IF k = "height" THEN h ELSE <<"a">>, n)]
Without(f, k) == [j \in (DOMAIN f) \ {k} |-> f[j]]

\* complete forms, forms with one field absent, forms with one field empty or
\* all spaces, and the form with no field at all
FormsOver(W, H) ==
  LET full == {FormOf(w, h, n) : w \in W, h \in H, n \in 0..MaxPad}
  IN  full
      \cup {Without(f, k) : f \in full, k \in FieldNames}
      \cup {[f EXCEPT ![k] = Spaces(n)] : f \in full, k \in FieldNames, n \in 0..MaxPad}
      \cup {[k \in {} |-> <<>>]}

\* completions: for each section, absent or a header line (indented or not)
\* followed by up to MaxLines item lines
Item == <<"r", "b", "d", "w">>
ItemLines(i, n) ==
  [j \in 1..(3 * n) |-> IF j % 3 = 1 THEN NL ELSE IF j % 3 = 2 THEN "-" ELSE Item[i]]
BlockChoices ==
  {[present |-> FALSE, lead |-> <<>>, n |-> 0]}
  \cup {[present |-> TRUE, lead |-> l, n |-> n] : l \in {<<>>, <<SP>>}, n \in 0..MaxLines}
Block(i, c, mid) ==
  IF ~c.present THEN <<>>
  ELSE c.lead \o <<Emoji[i]>> \o mid \o <<Literal[i], SP>> \o ItemLines(i, c.n) \o <<NL>>
RECURSIVE Blocks(_, _, _)
Blocks(order, ch, mid) ==
  IF order = <<>> THEN <<>>
  ELSE Block(Head(order), ch[Head(order)], mid) \o Blocks(Tail(order), ch, mid)
Orders == {<<1, 2, 3, 4>>, <<2, 1, 3, 4>>, <<4, 3, 2, 1>>, <<1, 2, 3, 4, 1>>}
Completions ==
  {<<"a", NL>> \o Blocks(o, ch, mid) :
     o \in Orders, ch \in [Sections -> BlockChoices], mid \in {<<>>, <<SP>>}}

Plain(n) == [present |-> TRUE, lead |-> <<>>, n |-> n]
Absent == [present |-> FALSE, lead |-> <<>>, n |-> 0]
FullText == <<"a", NL>> \o Blocks(<<1, 2, 3, 4>>, [i \in Sections |-> Plain(1)], <<SP>>)
NoWorkoutText ==
  <<"a", NL>> \o Blocks(<<1, 2, 3, 4>>, [i \in Sections |-> IF i = 4 THEN Absent ELSE Plain(1)], <<SP>>)

TextReply(t) == [kind |-> "text", text |-> t, exc |-> ""]
RaiseReply(e) == [kind |-> "raise", text |-> <<>>, exc |-> e]
FewReplies ==
  {TextReply(<<>>), TextReply(FullText), TextReply(NoWorkoutText),
   RaiseReply("timeout"), RaiseReply("rate limit exceeded")}
AllReplies == {TextReply(t) : t \in Completions} \cup {RaiseReply("timeout")}

NoArgs == [k \in {} |-> <<>>]
SomeArgs ==
  [bmi |-> <<"2", "2", ".", "8", "6">>, bmi_status |-> <<"N">>,
   daily_routine |-> << <<"-", "r">> >>, breakfast_items |-> << <<"-", "b">> >>,
   dinner_items |-> << <<"-", "d">> >>, workout_plans |-> << <<"-", "w">> >>]

RecommendScenarios(F, P) ==
  {[kind |-> "recommend", form |-> f, args |-> NoArgs, provider |-> p, pisa |-> "ok"] :
     f \in F, p \in P}
DownloadScenarios ==
  {[kind |-> "download", form |-> NoArgs, args |-> a, provider |-> RaiseReply(""), pisa |-> x] :
     a \in {NoArgs, SomeArgs}, x \in {"ok", "raise"}}
IdleScenario ==
  [kind |-> "none", form |-> NoArgs, args |-> NoArgs, provider |-> RaiseReply(""), pisa |-> "ok"]

SpecScenarios == RecommendScenarios(FormsOver(WeightStrs, HeightStrs), FewReplies) \cup DownloadScenarios
FewForms ==
  { FormOf(<<"7", "0">>, <<"1", ".", "7", "5">>, 0),
    Without(FormOf(<<"7", "0">>, <<"1", ".", "7", "5">>, 0), "age"),
    FormOf(<<"7", "0">>, <<"x">>, 0),
    FormOf(<<"7", "0">>, <<"0">>, 0) }
ExtractScenarios == RecommendScenarios(FewForms, AllReplies) \cup DownloadScenarios
ConcForms ==
  { FormOf(<<"7", "0">>, <<"1", ".", "7", "5">>, 0),
    FormOf(<<"2", "4", ".", "9", "5">>, <<"1">>, 0),
    Without(FormOf(<<"7", "0">>, <<"1">>, 0), "veg") }
ConcReplies ==
  {TextReply(FullText), TextReply(NoWorkoutText), RaiseReply("timeout"),
   RaiseReply("rate limit exceeded")}
ConcScenarios ==
  RecommendScenarios(ConcForms, ConcReplies)
  \cup {d \in DownloadScenarios : d.args = SomeArgs}

\* -------------------------------------------------------------- the state
VARIABLES
  request,     \* per request: the route and what the client sent
  provider,    \* per request: what chain.run gives when this request calls it
  pisa,        \* per request: whether pisa.CreatePDF raises
  pc,          \* per request: the handler's position
  locals,      \* per request: the handler's local variables
  calls,       \* per request: the input_data of each chain.run call made
  resp,        \* per request: the response returned
  nresp,       \* per request: how many responses were returned
  trace,       \* per request: the steps executed so far
  llm_restro   \* the module-level ChatGroq client

vars == <<request, provider, pisa, pc, locals, calls, resp, nresp, trace, llm_restro>>

Client == [model |-> "mixtral-8x7b-32768", temperature |-> "0.7"]

NoLocals ==
  [vals |-> [k \in FieldNames |-> <<>>], bmi |-> 0, bmi_status |-> "",
   response |-> <<>>, matches |-> [i \in Sections |-> <<>>]]
NoResp == [status |-> 0, template |-> "", ctx |-> [message |-> <<>>]]

InitOver(scen) ==
  /\ request = [r \in Requests |-> [kind |-> scen[r].kind, form |-> scen[r].form, args |-> scen[r].args]]
  /\ provider = [r \in Requests |-> scen[r].provider]
  /\ pisa = [r \in Requests |-> scen[r].pisa]
  /\ pc = [r \in Requests |-> IF scen[r].kind = "none" THEN "idle" ELSE "start"]
  /\ locals = [r \in Requests |-> NoLocals]
  /\ calls = [r \in Requests |-> <<>>]
  /\ resp = [r \in Requests |-> NoResp]
  /\ nresp = [r \in Requests |-> 0]
  /\ trace = [r \in Requests |-> <<>>]
  /\ llm_restro = Client

\* one request, every input
Init ==
  \E s \in SpecScenarios :
    InitOver([r \in Requests |-> IF r = 1 THEN s ELSE IdleScenario])
\* one request, every completion
InitExtract ==
  \E s \in ExtractScenarios :
    InitOver([r \in Requests |-> IF r = 1 THEN s ELSE IdleScenario])
\* MaxRequests requests in flight together
InitConc == \E scen \in [Requests -> ConcScenarios] : InitOver(scen)

\* ------------------------------------------------------------ the handlers
Get(f, k, default) == IF k \in DOMAIN f THEN f[k] ELSE default

ErrorPage(status, message) ==
  [status |-> status, template |-> "error.html", ctx |-> [message |-> message]]

\* line 138: the message carries str(e)
ExceptionPageGeneric(e) == ErrorPage(500, <<"Something went wrong">>)
ExceptionPage(e) == ErrorPage(500, <<"Something went wrong: ", e>>)

Return(r, response) ==
  /\ resp' = [resp EXCEPT ![r] = response]
  /\ nresp' = [nresp EXCEPT ![r] = @ + 1]
  /\ pc' = [pc EXCEPT ![r] = "done"]

Step(r, name) == trace' = [trace EXCEPT ![r] = Append(@, name)]

\* lines 78-92
Validate(r) ==
  /\ pc[r] = "start"
  /\ request[r].kind = "recommend"
  /\ Step(r, "validate")
  /\ LET vals == [k \in FieldNames |-> Strip(Get(request[r].form, k, <<>>))]
     IN  IF \E k \in FieldNames : vals[k] = <<>>
         THEN /\ Return(r, ErrorPage(400, <<"Missing required fields!">>))
              /\ UNCHANGED locals
         ELSE /\ locals' = [locals EXCEPT ![r].vals = vals]
              /\ pc' = [pc EXCEPT ![r] = "validated"]
              /\ UNCHANGED <<resp, nresp>>
  /\ UNCHANGED <<request, provider, pisa, calls, llm_restro>>

\* lines 94-99
ComputeBmi(r) ==
  /\ pc[r] = "validated"
  /\ Step(r, "bmi")
  /\ LET b == calculate_bmi(locals[r].vals["weight"], locals[r].vals["height"])
     IN  CASE b.kind = "none" ->
                /\ Return(r, ErrorPage(400, <<"Invalid weight or height format!">>))
                /\ UNCHANGED locals
           [] b.kind = "raise" ->
                /\ Return(r, ExceptionPage(b.exc))
                /\ UNCHANGED locals
           [] b.kind = "value" ->
                /\ locals' = [locals EXCEPT ![r].bmi = b.bmi,
                                            ![r].bmi_status = bmi_category(b.bmi)]
                /\ pc' = [pc EXCEPT ![r] = "bmi_done"]
                /\ UNCHANGED <<resp, nresp>>
  /\ UNCHANGED <<request, provider, pisa, calls, llm_restro>>

\* lines 102-113
InputData(r) ==
  [age |-> locals[r].vals["age"], weight |-> locals[r].vals["weight"],
   height |-> locals[r].vals["height"], bmi |-> locals[r].bmi,
   bmi_category |-> locals[r].bmi_status, gender |-> locals[r].vals["gender"],
   veg_or_nonveg |-> locals[r].vals["veg"], disease |-> locals[r].vals["disease"],
   allergics |-> locals[r].vals["allergics"], foodtype |-> locals[r].vals["foodtype"]]

\* lines 115-117
CallProviderRetry(r) ==
  /\ pc[r] = "bmi_done"
  /\ Step(r, "provider")
  /\ calls' = [calls EXCEPT ![r] = Append(@, InputData(r))]
  /\ IF provider[r].kind = "raise"
     THEN IF Len(calls[r]) = 0
          THEN UNCHANGED <<pc, resp, nresp, locals>>
          ELSE Return(r, ExceptionPage(provider[r].exc)) /\ UNCHANGED locals
     ELSE /\ locals' = [locals EXCEPT ![r].response = provider[r].text]
          /\ pc' = [pc EXCEPT ![r] = "called"]
          /\ UNCHANGED <<resp, nresp>>
  /\ UNCHANGED <<request, provider, pisa, llm_restro>>
CallProvider(r) ==
  /\ pc[r] = "bmi_done"
  /\ Step(r, "provider")
  /\ calls' = [calls EXCEPT ![r] = Append(@, InputData(r))]
  /\ IF provider[r].kind = "raise"
     THEN /\ Return(r, ExceptionPage(provider[r].exc))
          /\ UNCHANGED locals
     ELSE /\ locals' = [locals EXCEPT ![r].response = provider[r].text]
          /\ pc' = [pc EXCEPT ![r] = "called"]
          /\ UNCHANGED <<resp, nresp>>
  /\ UNCHANGED <<request, provider, pisa, llm_restro>>

\* lines 119-123
Extract(r) ==
  /\ pc[r] = "called"
  /\ Step(r, "extract")
  /\ locals' = [locals EXCEPT ![r].matches = [i \in Sections |-> FindAll(locals[r].response, i)]]
  /\ pc' = [pc EXCEPT ![r] = "extracted"]
  /\ UNCHANGED <<request, provider, pisa, calls, resp, nresp, llm_restro>>

\* lines 126-134: the template context of result.html
ResultContextShared(r) ==
  LET g == MaxOf({x \in Requests : pc[x] = "extracted"})
  IN  [bmi |-> locals[g].bmi, bmi_status |-> locals[g].bmi_status,
       daily_routine |-> SectionList(locals[g].matches[1], 1),
       breakfast_items |-> SectionList(locals[g].matches[2], 2),
       dinner_items |-> SectionList(locals[g].matches[3], 3),
       workout_plans |-> SectionList(locals[g].matches[4], 4)]
ResultContext(r) ==
  [bmi |-> locals[r].bmi, bmi_status |-> locals[r].bmi_status,
   daily_routine |-> SectionList(locals[r].matches[1], 1),
   breakfast_items |-> SectionList(locals[r].matches[2], 2),
   dinner_items |-> SectionList(locals[r].matches[3], 3),
   workout_plans |-> SectionList(locals[r].matches[4], 4)]

Render(r) ==
  /\ pc[r] = "extracted"
  /\ Step(r, "format")
  /\ Return(r, [status |-> 200, template |-> "result.html", ctx |-> ResultContext(r)])
  /\ UNCHANGED <<request, provider, pisa, locals, calls, llm_restro>>

\* lines 140-170
PdfContext(a) ==
  [bmi |-> Get(a, "bmi", <<>>), bmi_status |-> Get(a, "bmi_status", <<>>),
   daily_routine |-> Get(a, "daily_routine", <<>>),
   breakfast_items |-> Get(a, "breakfast_items", <<>>),
   dinner_items |-> Get(a, "dinner_items", <<>>),
   workout_plans |-> Get(a, "workout_plans", <<>>)]

Download(r) ==
  /\ pc[r] = "start"
  /\ request[r].kind = "download"
  /\ Step(r, "pdf")
  /\ IF pisa[r] = "raise"
     THEN Return(r, ErrorPage(500, <<"Failed to generate PDF!">>))
     ELSE Return(r, [status |-> 200, template |-> "pdf_template.html",
                     ctx |-> PdfContext(request[r].args)])
  /\ UNCHANGED <<request, provider, pisa, locals, calls, llm_restro>>

Next ==
  \E r \in Requests :
    \/ Validate(r)
    \/ ComputeBmi(r)
    \/ CallProvider(r)
    \/ Extract(r)
    \/ Render(r)
    \/ Download(r)

Spec == Init /\ [][Next]_vars
SpecExtract == InitExtract /\ [][Next]_vars
SpecConc == InitConc /\ [][Next]_vars

\* ============================================================== the claims
Recommend(r) == request[r].kind = "recommend"
Done(r) == pc[r] = "done"
Blank(v) == \A j \in 1..Len(v) : v[j] \in Whitespace
MissingField(f) == \E k \in FieldNames : k \notin DOMAIN f \/ Blank(f[k])
Called(r) == calls[r] # <<>>
BmiOf(f) == calculate_bmi(f["weight"], f["height"])

\* C1: a POST /recommend with a required field absent, empty or all
\* whitespace is answered 400 "Missing required fields!" and never reaches
\* the provider, whatever the other fields hold.
C1_MissingFieldRejected ==
  \A r \in Requests :
    (Recommend(r) /\ MissingField(request[r].form)) =>
      /\ ~Called(r)
      /\ pc[r] \in {"start", "done"}
      /\ Done(r) => resp[r] = ErrorPage(400, <<"Missing required fields!">>)

C1_Witness ==
  \E r \in Requests :
    /\ Recommend(r) /\ Done(r)
    /\ "age" \in DOMAIN request[r].form
    /\ request[r].form["age"] = <<SP>>
    /\ "weight" \in DOMAIN request[r].form
    /\ Strip(request[r].form["weight"]) = <<"x">>
    /\ resp[r].status = 400

\* C2: with all eight fields present and a weight or height that parses to
\* a number <= 0, calculate_bmi returns None without raising and the answer
\* is 400 "Invalid weight or height format!" with no provider call.
NonPositive(v) == ParseFloat(v).ok /\ ParseFloat(v).val <= 0
C2_NonPositiveRejected ==
  \A r \in Requests :
    ( /\ Recommend(r) /\ Done(r)
      /\ ~MissingField(request[r].form)
      /\ ParseFloat(request[r].form["weight"]).ok
      /\ ParseFloat(request[r].form["height"]).ok
      /\ NonPositive(request[r].form["weight"]) \/ NonPositive(request[r].form["height"]) ) =>
      /\ BmiOf(request[r].form).kind = "none"
      /\ resp[r] = ErrorPage(400, <<"Invalid weight or height format!">>)
      /\ ~Called(r)

\* C3: the category of a BMI computed from a parseable weight and a positive
\* height is Underweight exactly below 18.5, Normal exactly in [18.5, 24.9),
\* Overweight exactly in [25, 29.9) and Obese exactly from 29.9 on.
C3_CategoryLadder ==
  \A r \in Requests :
    ( /\ Recommend(r)
      /\ pc[r] \in {"bmi_done", "called", "extracted"}
      /\ ParseFloat(locals[r].vals["height"]).val > 0 ) =>
      LET b == locals[r].bmi
          c == locals[r].bmi_status
      IN  /\ c = "Underweight" <=> b < 1850
          /\ c = "Normal weight" <=> (1850 <= b /\ b < 2490)
          /\ c = "Overweight" <=> (2500 <= b /\ b < 2990)
          /\ c = "Obese" <=> b >= 2990

\* the exception a POST /recommend ran into, if any
Raised(r) ==
  \/ Called(r) /\ provider[r].kind = "raise"
  \/ ~MissingField(request[r].form) /\ BmiOf(request[r].form).kind = "raise"
RaisedText(r) ==
  IF Called(r) THEN provider[r].exc ELSE BmiOf(request[r].form).exc

C5_EmptyCompletionIs500 ==
  \A r \in Requests :
    (Recommend(r) /\ Done(r) /\ Called(r) /\ provider[r] = TextReply(<<>>)) =>
      resp[r].status = 500

\* C5 amended: an empty completion for a valid request is answered 200 with
\* the BMI, its category and the four placeholders.
C5_EmptyCompletionIsPlaceholders ==
  \A r \in Requests :
    (Recommend(r) /\ Done(r) /\ Called(r) /\ provider[r] = TextReply(<<>>)) =>
      /\ resp[r].status = 200
      /\ resp[r].template = "result.html"
      /\ resp[r].ctx.bmi = BmiOf(request[r].form).bmi
      /\ resp[r].ctx.bmi_status = bmi_category(resp[r].ctx.bmi)
      /\ resp[r].ctx.daily_routine = <<Placeholder[1]>>
      /\ resp[r].ctx.breakfast_items = <<Placeholder[2]>>
      /\ resp[r].ctx.dinner_items = <<Placeholder[3]>>
      /\ resp[r].ctx.workout_plans = <<Placeholder[4]>>

C5_Witness ==
  \E r \in Requests :
    /\ Recommend(r) /\ Done(r) /\ Called(r) /\ provider[r] = TextReply(<<>>)
    /\ resp[r].status = 200

\* where the header of section i stands in a text: the emoji, whitespace,
\* the literal; the pair is <<position of the emoji, position of the literal>>
HeaderSpans(text, i) ==
  {<<p, q>> \in (1..Len(text)) \X (1..Len(text)) :
     /\ p < q
     /\ text[p] = Emoji[i]
     /\ text[q] = Literal[i]
     /\ \A j \in (p + 1)..(q - 1) : text[j] \in Whitespace}
HeaderFound(text, i) == HeaderSpans(text, i) # {}
TheSpan(text, i) == CHOOSE sp \in HeaderSpans(text, i) : TRUE
\* the headers 1..n stand once each and in order, the others not at all
InOrder(text, n) ==
  /\ \A i \in 1..n : Cardinality(HeaderSpans(text, i)) = 1
  /\ \A i \in (n + 1)..4 : ~HeaderFound(text, i)
  /\ \A i \in 1..(n - 1) : TheSpan(text, i)[2] < TheSpan(text, i + 1)[1]
\* the lines between header i and the next of the n headers (or the end)
Between(text, i, n) ==
  LET from == TheSpan(text, i)[2] + 1
      to   == IF i < n THEN TheSpan(text, i + 1)[1] - 1 ELSE Len(text)
  IN  Split(Strip(SubSeq(text, from, to)))
SectionOf(r, i) ==
  CASE i = 1 -> resp[r].ctx.daily_routine
    [] i = 2 -> resp[r].ctx.breakfast_items
    [] i = 3 -> resp[r].ctx.dinner_items
    [] i = 4 -> resp[r].ctx.workout_plans
Answered200(r) == Recommend(r) /\ Done(r) /\ resp[r].status = 200

\* C6: when the completion holds the four headers in order, each section is
\* exactly the trimmed lines between its header and the next one (the end of
\* the text for the workout), and none is a placeholder.
C6_FourHeadersExtracted ==
  \A r \in Requests :
    (Answered200(r) /\ InOrder(provider[r].text, 4)) =>
      \A i \in Sections :
        /\ SectionOf(r, i) # <<Placeholder[i]>>
        /\ SectionOf(r, i) = Between(provider[r].text, i, 4)

\* C7: when the completion holds the routine, breakfast and dinner headers
\* in order and no workout header, the workout is its placeholder and the
\* other three are the trimmed lines between their header and the next.
C7_MissingWorkoutExtracted ==
  \A r \in Requests :
    (Answered200(r) /\ InOrder(provider[r].text, 3)) =>
      /\ SectionOf(r, 4) = <<Placeholder[4]>>
      /\ \A i \in 1..3 : SectionOf(r, i) = Between(provider[r].text, i, 3)

StepOrder == <<"validate", "bmi", "provider", "extract", "format">>
IsPrefix(s, t) == Len(s) <= Len(t) /\ s = SubSeq(t, 1, Len(s))

\* C9: the steps of one POST /recommend run in the order validate, bmi,
\* provider, extract, format with none repeated; the provider is called at
\* most once and only after validation and BMI succeeded; the request ends
\* with exactly one response, which is 200 only if the provider was called
\* once and returned a completion.
C9_OneWayPipeline ==
  \A r \in Requests :
    Recommend(r) =>
      /\ IsPrefix(trace[r], StepOrder)
      /\ Len(calls[r]) <= 1
      /\ Called(r) =>
           /\ ~MissingField(request[r].form)
           /\ BmiOf(request[r].form).kind = "value"
           /\ SubSeq(trace[r], 1, 3) = <<"validate", "bmi", "provider">>
      /\ nresp[r] = (IF Done(r) THEN 1 ELSE 0)
      /\ resp[r].status = 200 =>
           /\ Len(calls[r]) = 1
           /\ provider[r].kind = "text"
           /\ trace[r] = StepOrder

C9_Witness ==
  \E r \in Requests : Recommend(r) /\ Done(r) /\ resp[r].status = 200 /\ trace[r] = StepOrder

\* what one request gives when it runs alone: a function of what the client
\* sent, the provider's reply to it and the PDF renderer's outcome
Alone(req, reply, pdf) ==
  IF req.kind = "download"
  THEN IF pdf = "raise" THEN ErrorPage(500, <<"Failed to generate PDF!">>)
       ELSE [status |-> 200, template |-> "pdf_template.html", ctx |-> PdfContext(req.args)]
  ELSE IF MissingField(req.form) THEN ErrorPage(400, <<"Missing required fields!">>)
  ELSE LET b == calculate_bmi(Strip(req.form["weight"]), Strip(req.form["height"]))
       IN  IF b.kind = "none" THEN ErrorPage(400, <<"Invalid weight or height format!">>)
           ELSE IF b.kind = "raise" THEN ErrorPage(500, <<"Something went wrong: ", b.exc>>)
           ELSE IF reply.kind = "raise" THEN ErrorPage(500, <<"Something went wrong: ", reply.exc>>)
           ELSE [status |-> 200, template |-> "result.html",
                 ctx |-> [bmi |-> b.bmi, bmi_status |-> bmi_category(b.bmi),
                          daily_routine |-> SectionList(FindAll(reply.text, 1), 1),
                          breakfast_items |-> SectionList(FindAll(reply.text, 2), 2),
                          dinner_items |-> SectionList(FindAll(reply.text, 3), 3),
                          workout_plans |-> SectionList(FindAll(reply.text, 4), 4)]]

\* C10: with requests interleaved in any way, the shared client is never
\* changed and every finished request has the response it has when it runs
\* alone on its own inputs and its own provider reply.
C10_RequestsIndependent ==
  /\ llm_restro = Client
  /\ \A r \in Requests :
       Done(r) => resp[r] = Alone(request[r], provider[r], pisa[r])

\* two requests with different forms, both answered 200, differently
C10_Witness ==
  \E r, q \in Requests :
    /\ r < q
    /\ Answered200(r) /\ Answered200(q)
    /\ resp[r] # resp[q]
    /\ request[r].form # request[q].form

====
